---- MODULE Spec2Model ----
(***************************************************************************)
(* A model of base.py: the topology builders get_bayesian_network and      *)
(* get_network, the robustness sweeps of Wrapper (shuffle_test, fgsm_test,  *)
(* white_noise_test), fgsm_attack, Wrapper.reliability_diagram and          *)
(* Wrapper.temperature_scaling, epistemic_aleatoric_uncertainty and         *)
(* PixelShuffle.                                                           *)
(*                                                                         *)
(* Each part of the program has its own specification over its own         *)
(* variables (SpecBuild, SpecSweep, SpecFgsm, SpecRD, SpecTS, SpecEA,      *)
(* SpecPS); the variables of the other parts stay at their idle values.    *)
(***************************************************************************)
EXTENDS Integers, Sequences, FiniteSets, TLC

VARIABLES
    \* ---- topology builders ----
    builder,      \* "get_bayesian_network" | "get_network" | "none"
    topology,     \* the topology argument: a sequence of entries
    classes,      \* the classes argument
    j,            \* number of topology entries already processed by the loop
    features,     \* the ModuleList under construction
    ll_conv,      \* the builder's ll_conv flag
    bpc,          \* "idle" | "loop" | "returned" | "raised"
    err,          \* the exception raised, or NoError
    \* ---- robustness sweeps of Wrapper ----
    labels,       \* the test set: the true label of each example
    net,          \* the model: its output per example, on clean and on perturbed input
    test,         \* the test being run, or "none"
    pc,           \* "idle" | "level" | "batch" | "returned" | "raised"
    transform,    \* self.test_data.dataset.transform
    ts_copy,      \* the local ts_copy
    lvl,          \* number of strengths whose iteration has started
    bidx,         \* number of batches consumed in the current pass
    swept,        \* history: the strengths whose pass over the test set completed
    H, He, pred_label, true_label,          \* the per-strength local lists
    correctly_predicted, wrongly_predicted,
    correctly_predicted_h, wrongly_predicted_h,
    HS, DIFF, scores,
    \* ---- fgsm_attack ----
    image,        \* the image argument: a tensor object with data and grad
    epsilon,      \* the epsilon argument, in thousandths
    ret,          \* what the call produced: a tensor object or an exception
    fpc,          \* "idle" | "call" | "done"
    \* ---- Wrapper.reliability_diagram ----
    y_prob,       \* top-1 probability of each prediction, in units of 1/Res
    y_pred,       \* top-1 label of each prediction
    y_true,       \* true label of each prediction
    bins,         \* the bins argument
    b,            \* the bucket the for-loop is at
    prob_pred,    \* per bucket the mean confidence, a fraction <<num, den>>
    prob_true,    \* per bucket the accuracy, a fraction <<num, den>>
    ece,          \* the running ECE, a fraction <<num, den>>
    rpc,          \* "idle" | "loop" | "returned"
    \* ---- Wrapper.temperature_scaling ----
    outs,         \* the tensor outs: what the caching loop concatenates
    top_prob,     \* history: the top-1 probabilities torch.topk returned beside pred
    opt_steps,    \* number of optimizer.step() calls made on temperature
    best_ece,     \* the local best_ece
    min_seen,     \* history: the least of the initial ECE and the ECEs of the steps made
    stalled,      \* history: some step's ECE was not below best_ece
    iter,         \* the loop variable i: number of iterations that ran to their end
    ts_ret,       \* the value returned
    tpc,          \* "idle" | "start" | "cache" | "loop" | "after_loop" | "returned"
    \* ---- epistemic_aleatoric_uncertainty ----
    ea_in,        \* the argument x after the softmax: its dim and its probabilities
    ea_p,         \* p: the probabilities, indexed [sample][example][class]
    ea_hat,       \* p_hat: the mean of p over the samples
    bi,           \* number of examples the outer loop has processed
    al,           \* the local al of the last example processed
    ep,           \* the local ep of the last example processed
    variances,    \* the list variances
    determinants, \* the list determinants
    epc,          \* "idle" | "call" | "loop" | "returned"
    \* ---- PixelShuffle ----
    percentage,   \* the percentage argument of the constructor, in halves
    pixels_map,   \* self.pixels_map: None or the list of (position, value) pairs
    x_arg,        \* the image object passed to the last call, as it is after the call
    x1,           \* the image the last call returned
    x_given,      \* history: the pixels of the last call's argument when it was passed
    x_first,      \* history: the pixels of the first call's argument when it was passed
    chosen,       \* history: the local pixels_map of the first call, the index pairs drawn
    first_map,    \* history: self.pixels_map as the first call left it
    calls,        \* number of calls made on the instance
    xpc           \* "idle" | "new" | "ready" | "raised"

bvars == <<builder, topology, classes, j, features, ll_conv, bpc, err>>

svars == <<labels, net, test, pc, transform, ts_copy, lvl, bidx, swept,
           H, He, pred_label, true_label,
           correctly_predicted, wrongly_predicted,
           correctly_predicted_h, wrongly_predicted_h, HS, DIFF, scores>>

fvars == <<image, epsilon, ret, fpc>>

rvars == <<y_prob, y_pred, y_true, bins, b, prob_pred, prob_true, ece, rpc>>

tvars == <<outs, top_prob, opt_steps, best_ece, min_seen, stalled, iter, ts_ret, tpc>>

evars == <<ea_in, ea_p, ea_hat, bi, al, ep, variances, determinants, epc>>

xvars == <<percentage, pixels_map, x_arg, x1, x_given, x_first, chosen, first_map,
           calls, xpc>>

vars == <<bvars, svars, fvars, rvars, tvars, evars, xvars>>

--------------------------------------------------------------------------
(* Bounds of the model *)

\* longest topology the builders are run on
MaxLen == 3
\* the class counts the builders are called with are 2 .. MaxClasses
MaxClasses == 2
\* size of the test set (the loader yields one example per batch)
NumExamples == 2
\* number of pixels of the images fgsm_attack is called on
NumPixels == 2
\* number of predictions reliability_diagram is computed from
NumPredictions == 2
\* resolution of the confidences: a confidence is a multiple of 1/Res
Res == 6
\* number of batches temperature_scaling caches (one prediction per batch)
NumCached == 1
\* the ECE values reliability_diagram returns to temperature_scaling are 0 .. MaxEce
MaxEce == 101
\* number of examples in the batch given to epistemic_aleatoric_uncertainty
BatchItems == 2
\* the batch holds 1 .. MaxSamples stochastic samples per example
MaxSamples == 2
\* the images given to a PixelShuffle are Width pixels wide and 1 pixel high
Width == 2
\* a PixelShuffle instance is called at most MaxCalls times
MaxCalls == 3

--------------------------------------------------------------------------
(* Topology entries.  A Python value is a record                           *)
(*   type : "tuple" | "str" | "float" | "int" | "dict"                     *)
(*   tag  : for a tuple, i[0] when it is a string ("" otherwise);          *)
(*          for a str, the string itself                                   *)
(*   len  : for a tuple, its length                                        *)
(*   val  : for an int its value, for a conv tuple its kernel count        *)

Entry(type, tag, len, val) == [type |-> type, tag |-> tag, len |-> len, val |-> val]

ConvEntry     == Entry("tuple", "", 4, 16)       \* (16, 3, 1, 1)
MaxPoolEntry  == Entry("tuple", "MP", 3, 2)      \* ('MP', 2, 2)
AvgPoolEntry  == Entry("tuple", "AP", 3, 2)      \* ('AP', 2, 2)
ShortTuple    == Entry("tuple", "", 2, 16)       \* (16, 3): not a 4-element descriptor
EmptyTuple    == Entry("tuple", "", 0, 0)        \* ()
StrEntry(s)   == Entry("str", s, 0, 0)
FloatEntry    == Entry("float", "", 0, 0)        \* 0.25
IntEntry      == Entry("int", "", 0, 10)         \* 10
DictEntry     == Entry("dict", "", 0, 0)         \* {'bad': 1}

Strings == {"relu", "ReLU", "sigmoid", "SIGMOID", "tanh"}

Entries ==
    {ConvEntry, MaxPoolEntry, AvgPoolEntry, ShortTuple, EmptyTuple, FloatEntry, IntEntry,
     DictEntry}
        \cup {StrEntry(s) : s \in Strings}

\* str.lower() on the strings of the model
Lower(s) ==
    CASE s = "relu"    -> "relu"
      [] s = "ReLU"    -> "relu"
      [] s = "sigmoid" -> "sigmoid"
      [] s = "SIGMOID" -> "sigmoid"
      [] OTHER         -> s

IsTuple(i) == i.type = "tuple"     \* isinstance(i, (tuple, list))
IsStr(i)   == i.type = "str"
IsFloat(i) == i.type = "float"
IsInt(i)   == i.type = "int"

--------------------------------------------------------------------------
(* Modules of the ModuleList: kind and, for a linear layer, out_size *)

Module(kind, out) == [kind |-> kind, out |-> out]

NoError == [exc |-> "none", entries |-> {}, indices |-> {}]

\* the same error with the message left unformatted: it names nothing
TopologyErrorUnformatted(i, idx) == [exc |-> "ValueError", entries |-> {}, indices |-> {}]

\* ValueError('Topology should be ... {} was given'.format(i)): the message is
\* formatted with the entry i alone
TopologyError(i, idx) == [exc |-> "ValueError", entries |-> {i}, indices |-> {}]

\* size, kernel_size, stride, padding = i   on a tuple of another length
UnpackError(i, idx) == [exc |-> "ValueError", entries |-> {}, indices |-> {}]

\* i[0] on an empty tuple or list
IndexError(i, idx) == [exc |-> "IndexError", entries |-> {}, indices |-> {}]

\* The outcome of one iteration of the loop body on entry i at index idx with
\* flag ll: the modules appended to features, the new flag, the error raised.
Outcome(mods, ll, e) == [mods |-> mods, ll |-> ll, err |-> e]

\* get_bayesian_network, the body of `for j, i in enumerate(topology)`
BayesianBody(i, idx, ll) ==
    IF IsTuple(i) /\ i.len = 0 THEN
        Outcome(<<>>, ll, IndexError(i, idx))
    ELSE IF IsTuple(i) /\ i.tag = "MP" THEN
        Outcome(<<Module("MaxPool2d", 0)>>, TRUE, NoError)
    ELSE IF IsStr(i) /\ Lower(i.tag) = "relu" THEN
        Outcome(<<Module("ReLU", 0)>>, ll, NoError)
    ELSE IF IsStr(i) /\ Lower(i.tag) = "sigmoid" THEN
        Outcome(<<Module("Sigmoid", 0)>>, ll, NoError)
    ELSE IF IsFloat(i) THEN
        Outcome(<<Module("Dropout", 0)>>, ll, NoError)
    ELSE IF IsTuple(i) /\ i.tag = "AP" THEN
        Outcome(<<Module("AvgPool2d", 0)>>, TRUE, NoError)
    ELSE IF IsTuple(i) THEN
        IF i.len = 4
        THEN Outcome(<<Module("BayesianCNNLayer", i.val)>>, ll, NoError)
        ELSE Outcome(<<>>, ll, UnpackError(i, idx))
    ELSE IF IsInt(i) THEN
        Outcome((IF ll THEN <<Module("Flatten", 0)>> ELSE <<>>)
                    \o <<Module("BayesianLinearLayer", i.val)>>, FALSE, NoError)
    ELSE
        Outcome(<<>>, ll, TopologyError(i, idx))

\* get_network, the body of `for j, i in enumerate(topology)`
NetworkBody(i, idx, ll) ==
    IF IsTuple(i) /\ i.len = 0 THEN
        Outcome(<<>>, ll, IndexError(i, idx))
    ELSE IF IsTuple(i) /\ i.tag = "MP" THEN
        Outcome(<<Module("MaxPool2d", 0)>>, TRUE, NoError)
    ELSE IF IsStr(i) /\ Lower(i.tag) = "relu" THEN
        Outcome(<<Module("ReLU", 0)>>, ll, NoError)
    ELSE IF IsFloat(i) THEN
        Outcome(<<Module("Dropout", 0)>>, ll, NoError)
    ELSE IF IsTuple(i) /\ i.tag = "AP" THEN
        Outcome(<<Module("AvgPool2d", 0)>>, TRUE, NoError)
    ELSE IF IsTuple(i) THEN
        IF i.len = 4
        THEN Outcome(<<Module("Conv2d", i.val)>>, TRUE, NoError)
        ELSE Outcome(<<>>, ll, UnpackError(i, idx))
    ELSE IF IsInt(i) THEN
        Outcome((IF ll THEN <<Module("Flatten", 0)>> ELSE <<>>)
                    \o <<Module("Linear", i.val)>>, FALSE, NoError)
    ELSE
        Outcome(<<>>, ll, TopologyError(i, idx))

\* get_bayesian_network after the loop: `if isinstance(topology[-1], (tuple, list))`
BayesianTail(topo, ll, cls) ==
    (IF IsTuple(topo[Len(topo)]) THEN <<Module("Flatten", 0)>> ELSE <<>>)
        \o <<Module("BayesianLinearLayer", cls)>>

\* get_network after the loop: `if ll_conv`
NetworkTail(topo, ll, cls) ==
    (IF ll THEN <<Module("Flatten", 0)>> ELSE <<>>)
        \o <<Module("Linear", cls)>>

--------------------------------------------------------------------------
(* The builders as a state machine *)

Builders == {"get_bayesian_network", "get_network"}

RECURSIVE SeqsUpTo(_, _)
SeqsUpTo(S, n) ==
    IF n = 0 THEN {<<>>}
    ELSE LET shorter == SeqsUpTo(S, n - 1)
         IN  shorter \cup {Append(s, x) : s \in {t \in shorter : Len(t) = n - 1}, x \in S}

Topologies == {t \in SeqsUpTo(Entries, MaxLen) : Len(t) >= 1}

BuildIdle ==
    /\ builder = "none"
    /\ topology = <<>>
    /\ classes = 0
    /\ j = 0
    /\ features = <<>>
    /\ ll_conv = FALSE
    /\ bpc = "idle"
    /\ err = NoError

\* the call: features = ModuleList(), ll_conv = False
BuildInit ==
    /\ builder \in Builders
    /\ topology \in Topologies
    /\ classes \in 2 .. MaxClasses
    /\ j = 0
    /\ features = <<>>
    /\ ll_conv = FALSE
    /\ bpc = "loop"
    /\ err = NoError

\* one iteration of the loop, features.append(l) included
BuildStep ==
    /\ bpc = "loop"
    /\ j < Len(topology)
    /\ LET i == topology[j + 1]
           o == IF builder = "get_bayesian_network"
                THEN BayesianBody(i, j, ll_conv)
                ELSE NetworkBody(i, j, ll_conv)
       IN  IF o.err = NoError
           THEN /\ features' = features \o o.mods
                /\ ll_conv' = o.ll
                /\ j' = j + 1
                /\ UNCHANGED <<bpc, err>>
           ELSE /\ bpc' = "raised"
                /\ err' = o.err
                /\ UNCHANGED <<features, ll_conv, j>>
    /\ UNCHANGED <<xvars, evars, builder, topology, classes, svars, fvars, rvars, tvars>>

\* the code after the loop and the return
BuildFinish ==
    /\ bpc = "loop"
    /\ j = Len(topology)
    /\ features' = features \o
            (IF builder = "get_bayesian_network"
             THEN BayesianTail(topology, ll_conv, classes)
             ELSE NetworkTail(topology, ll_conv, classes))
    /\ bpc' = "returned"
    /\ UNCHANGED <<xvars, evars, builder, topology, classes, j, ll_conv, err, svars, fvars, rvars, tvars>>

BuildNext == BuildStep \/ BuildFinish

--------------------------------------------------------------------------
(* The robustness sweeps of Wrapper.  Strengths are written in thousandths. *)

\* Wrapper.epsilons, Wrapper.shuffle_percentage, Wrapper.noise
epsilons           == <<0, 1, 5, 10, 50, 100, 200, 300>>
shuffle_percentage == <<0, 100, 200, 500, 800>>
noise              == <<0, 10, 50, 100, 200, 300, 400, 500, 600, 700, 800>>

Tests == {"shuffle_test", "fgsm_test", "white_noise_test"}

\* the list each test's for-loop iterates over
Strengths(t) ==
    CASE t = "shuffle_test"     -> noise
      [] t = "fgsm_test"        -> epsilons
      [] t = "white_noise_test" -> noise

\* a transform pipeline is the sequence of its steps
Step(name, arg) == [name |-> name, arg |-> arg]
BaseTransform == <<Step("ToTensor", 0)>>

\* T.Compose([PixelShuffle(n), ts_copy]) and T.Compose([ts_copy, AddNoise(eps)]);
\* fgsm_test does not touch the transform
Composed(t, ts, cur, n) ==
    CASE t = "shuffle_test"     -> <<Step("PixelShuffle", n)>> \o ts
      [] t = "white_noise_test" -> ts \o <<Step("AddNoise", n)>>
      [] t = "fgsm_test"        -> cur

\* the transform at the return of the test
Restored(t, ts, cur) == IF t = "fgsm_test" THEN cur ELSE ts

\* The model's output on one example, reduced to what the sweeps read of it:
\* the argmax label, the determinant score of epistemic_aleatoric_uncertainty
\* and the entropy score.
Labels  == {0, 1}
Outputs == {[pred |-> 0, H |-> 1, He |-> 3], [pred |-> 1, H |-> 2, He |-> 4]}
Inputs  == {"clean", "perturbed"}

\* the output of eval_forward on example e under strength n: strength 0 leaves
\* the input as it is
Forward(e, n) == net[e][IF n = 0 THEN "clean" ELSE "perturbed"]

\* for i in range(len(true_label)): the scores of the examples with
\* true_label[i] == pred_label[i], in order, and the scores of the others
\* the bucketing with the else branch appending to the correct list as well
BucketElseAlsoCorrect(sc, tl, pl) == [correct |-> sc, wrong |-> <<>>]

RECURSIVE Bucket(_, _, _)
Bucket(sc, tl, pl) ==
    IF tl = <<>> THEN [correct |-> <<>>, wrong |-> <<>>]
    ELSE LET n    == Len(tl)
             rest == Bucket(SubSeq(sc, 1, n - 1), SubSeq(tl, 1, n - 1), SubSeq(pl, 1, n - 1))
         IN  IF tl[n] = pl[n]
             THEN [correct |-> Append(rest.correct, sc[n]), wrong |-> rest.wrong]
             ELSE [correct |-> rest.correct, wrong |-> Append(rest.wrong, sc[n])]

RECURSIVE SumSeq(_)
SumSeq(q) == IF q = <<>> THEN 0 ELSE q[Len(q)] + SumSeq(SubSeq(q, 1, Len(q) - 1))

\* -np.log(np.mean(H)), kept as the mean it is computed from: <<sum, count>>
NegLogMean(h) == <<SumSeq(h), Len(h)>>

\* metrics.f1_score(true_label, pred_label, average='micro'): the fraction of
\* examples predicted correctly, as <<correct, total>>
F1Micro(tl, pl) == <<Cardinality({i \in DOMAIN tl : tl[i] = pl[i]}), Len(tl)>>

SweepIdle ==
    /\ labels = <<>>
    /\ net = <<>>
    /\ test = "none"
    /\ pc = "idle"
    /\ transform = BaseTransform
    /\ ts_copy = <<>>
    /\ lvl = 0
    /\ bidx = 0
    /\ swept = <<>>
    /\ H = <<>> /\ He = <<>> /\ pred_label = <<>> /\ true_label = <<>>
    /\ correctly_predicted = <<>> /\ wrongly_predicted = <<>>
    /\ correctly_predicted_h = <<>> /\ wrongly_predicted_h = <<>>
    /\ HS = <<>> /\ DIFF = <<>> /\ scores = <<>>

\* a Wrapper on a test set and a model, before any test is called
SweepInit ==
    /\ labels \in [1 .. NumExamples -> Labels]
    /\ net \in [1 .. NumExamples -> [Inputs -> Outputs]]
    /\ test = "none"
    /\ pc = "idle"
    /\ transform = BaseTransform
    /\ ts_copy = <<>>
    /\ lvl = 0
    /\ bidx = 0
    /\ swept = <<>>
    /\ H = <<>> /\ He = <<>> /\ pred_label = <<>> /\ true_label = <<>>
    /\ correctly_predicted = <<>> /\ wrongly_predicted = <<>>
    /\ correctly_predicted_h = <<>> /\ wrongly_predicted_h = <<>>
    /\ HS = <<>> /\ DIFF = <<>> /\ scores = <<>>

\* the call of a test up to its for-loop: ts_copy = deepcopy(transform), the
\* result lists empty
StartTest(t) ==
    /\ pc = "idle"
    /\ test' = t
    /\ ts_copy' = IF t = "fgsm_test" THEN ts_copy ELSE transform
    /\ pc' = "level"
    /\ UNCHANGED <<xvars, evars, bvars, fvars, rvars, tvars, labels, net, transform, lvl, bidx, swept, H, He, pred_label, true_label,
                   correctly_predicted, wrongly_predicted,
                   correctly_predicted_h, wrongly_predicted_h, HS, DIFF, scores>>

\* the head of one iteration of the for-loop: the transform is swapped and the
\* local lists are emptied
BeginLevel ==
    /\ pc = "level"
    /\ lvl < Len(Strengths(test))
    /\ lvl' = lvl + 1
    /\ transform' = Composed(test, ts_copy, transform, Strengths(test)[lvl + 1])
    /\ H' = <<>> /\ He' = <<>> /\ pred_label' = <<>> /\ true_label' = <<>>
    /\ bidx' = 0
    /\ pc' = "batch"
    /\ UNCHANGED <<xvars, evars, bvars, fvars, rvars, tvars, labels, net, test, ts_copy, swept,
                   correctly_predicted, wrongly_predicted,
                   correctly_predicted_h, wrongly_predicted_h, HS, DIFF, scores>>

\* one batch of the inner loop: the forward pass and the lists extended.
\* shuffle_test keeps no entropy list.
Batch ==
    /\ pc = "batch"
    /\ bidx < NumExamples
    /\ LET e   == bidx + 1
           out == Forward(e, Strengths(test)[lvl])
       IN  /\ true_label' = Append(true_label, labels[e])
           /\ H' = Append(H, out.H)
           /\ He' = IF test = "shuffle_test" THEN He ELSE Append(He, out.He)
           /\ pred_label' = Append(pred_label, out.pred)
    /\ bidx' = bidx + 1
    /\ UNCHANGED <<xvars, evars, bvars, fvars, rvars, tvars, labels, net, test, pc, transform, ts_copy, lvl, swept,
                   correctly_predicted, wrongly_predicted,
                   correctly_predicted_h, wrongly_predicted_h, HS, DIFF, scores>>

\* a forward pass (bidx < NumExamples) or a metric computation after the pass
\* raises: the exception leaves the test at once, nothing in the test catches it
Raises ==
    /\ pc = "batch"
    /\ pc' = "raised"
    /\ UNCHANGED <<xvars, evars, bvars, fvars, rvars, tvars, labels, net, test, transform, ts_copy, lvl, bidx, swept,
                   H, He, pred_label, true_label,
                   correctly_predicted, wrongly_predicted,
                   correctly_predicted_h, wrongly_predicted_h, HS, DIFF, scores>>

\* the end of one iteration, after the pass over the test set: fgsm_test and
\* white_noise_test bucket H and He by correctness; shuffle_test appends the
\* aggregate of H and the F1 score
EndLevel ==
    /\ pc = "batch"
    /\ bidx = NumExamples
    /\ swept' = Append(swept, Strengths(test)[lvl])
    /\ IF test = "shuffle_test"
       THEN /\ HS' = Append(HS, NegLogMean(H))
            /\ scores' = Append(scores, F1Micro(true_label, pred_label))
            /\ UNCHANGED <<correctly_predicted, wrongly_predicted,
                           correctly_predicted_h, wrongly_predicted_h>>
       ELSE /\ correctly_predicted' =
                    Append(correctly_predicted, Bucket(H, true_label, pred_label).correct)
            /\ wrongly_predicted' =
                    Append(wrongly_predicted, Bucket(H, true_label, pred_label).wrong)
            /\ correctly_predicted_h' =
                    Append(correctly_predicted_h, Bucket(He, true_label, pred_label).correct)
            /\ wrongly_predicted_h' =
                    Append(wrongly_predicted_h, Bucket(He, true_label, pred_label).wrong)
            /\ UNCHANGED <<HS, scores>>
    /\ pc' = "level"
    /\ UNCHANGED <<xvars, evars, bvars, fvars, rvars, tvars, labels, net, test, transform, ts_copy, lvl, bidx,
                   H, He, pred_label, true_label, DIFF>>

\* after the for-loop: the transform is put back and the test returns
FinishTest ==
    /\ pc = "level"
    /\ lvl = Len(Strengths(test))
    /\ transform' = Restored(test, ts_copy, transform)
    /\ pc' = "returned"
    /\ UNCHANGED <<xvars, evars, bvars, fvars, rvars, tvars, labels, net, test, ts_copy, lvl, bidx, swept,
                   H, He, pred_label, true_label,
                   correctly_predicted, wrongly_predicted,
                   correctly_predicted_h, wrongly_predicted_h, HS, DIFF, scores>>

SweepNext ==
    \/ \E t \in Tests : StartTest(t)
    \/ BeginLevel
    \/ Batch
    \/ Raises
    \/ EndLevel
    \/ FinishTest

--------------------------------------------------------------------------
(* fgsm_attack.  Pixel values and epsilon are written in thousandths. *)

\* a tensor object: its identity, its data, and its grad (None until a backward
\* pass has filled it)
None       == [some |-> FALSE, data |-> <<>>]
Grad(g)    == [some |-> TRUE, data |-> g]
Tensor(id, data, grad) == [kind |-> "tensor", id |-> id, data |-> data, grad |-> grad]
Raised(exc)            == [kind |-> "raised", id |-> "", data |-> <<>>, grad |-> None]
NoReturn               == [kind |-> "none", id |-> "", data |-> <<>>, grad |-> None]

\* pixel values, inside and outside [0, 1], and gradient values
PixelValues == {-200, 0, 500, 1200}
GradValues  == {-3, 0, 2}
EpsValues   == {epsilons[k] : k \in DOMAIN epsilons}

Images ==
    {Tensor("x", d, g) : d \in [1 .. NumPixels -> PixelValues],
                         g \in {None} \cup {Grad(v) : v \in [1 .. NumPixels -> GradValues]}}

\* torch.sign and torch.clamp(., 0, 1) on one value
Sign(v)  == IF v > 0 THEN 1 ELSE IF v < 0 THEN -1 ELSE 0
Clamp(v) == IF v < 0 THEN 0 ELSE IF v > 1000 THEN 1000 ELSE v

\* fgsm_attack without the `if epsilon == 0` shortcut
fgsm_attack_no_shortcut(img, eps) ==
    IF ~img.grad.some THEN Raised("AttributeError")
    ELSE Tensor("perturbed_image",
                [p \in DOMAIN img.data |-> Clamp(img.data[p] + eps * Sign(img.grad.data[p]))],
                None)

\* fgsm_attack(image, epsilon)
fgsm_attack(img, eps) ==
    IF eps = 0 THEN img
    ELSE IF ~img.grad.some THEN Raised("AttributeError")   \* image.grad is None
    ELSE Tensor("perturbed_image",
                [p \in DOMAIN img.data |-> Clamp(img.data[p] + eps * Sign(img.grad.data[p]))],
                None)

FgsmIdle ==
    /\ image = NoReturn
    /\ epsilon = 0
    /\ ret = NoReturn
    /\ fpc = "idle"

FgsmInit ==
    /\ image \in Images
    /\ epsilon \in EpsValues
    /\ ret = NoReturn
    /\ fpc = "call"

\* the call
FgsmCall ==
    /\ fpc = "call"
    /\ ret' = fgsm_attack(image, epsilon)
    /\ fpc' = "done"
    /\ UNCHANGED <<xvars, evars, bvars, svars, rvars, tvars, image, epsilon>>

FgsmNext == FgsmCall

--------------------------------------------------------------------------
(* Wrapper.reliability_diagram, from the arrays y_true, y_prob, y_pred on.     *)
(* Confidences are multiples of 1/Res and every quotient is kept as an exact  *)
(* fraction <<numerator, denominator>>.                                       *)

Zero == <<0, 1>>

\* the confidences: 0, the multiples of 1/Res up to 1, and one above 1 (a
\* scaling below 1 divides the softmax output into it)
Confidences == 0 .. Res + 1
BinChoices  == {2, 3}

RECURSIVE SumOver(_, _)
SumOver(S, f) ==
    IF S = {} THEN 0
    ELSE LET x == CHOOSE x \in S : TRUE IN f[x] + SumOver(S \ {x}, f)

Abs(x) == IF x < 0 THEN -x ELSE x

\* the bucket test with the two comparisons the other way round
InBinClosedBelow(c, bk, nb) == c * nb < bk * Res /\ c * nb >= (bk - 1) * Res

\* np.logical_and(y_prob <= b / bins, y_prob > (b - 1) / bins) for one confidence
InBin(c, bk, nb) == c * nb <= bk * Res /\ c * nb > (bk - 1) * Res

\* the indexes i of the current bin
BinIndexes(probs, bk, nb) == {i \in DOMAIN probs : InBin(probs[i], bk, nb)}

RDIdle ==
    /\ y_prob = <<>> /\ y_pred = <<>> /\ y_true = <<>>
    /\ bins = 0
    /\ b = 0
    /\ prob_pred = <<>> /\ prob_true = <<>>
    /\ ece = Zero
    /\ rpc = "idle"

\* the arrays are built; prob_pred, prob_true empty, ece = 0
RDInit ==
    /\ y_prob \in [1 .. NumPredictions -> Confidences]
    /\ y_pred \in [1 .. NumPredictions -> Labels]
    /\ y_true \in [1 .. NumPredictions -> Labels]
    /\ bins \in BinChoices
    /\ b = 1
    /\ prob_pred = <<>> /\ prob_true = <<>>
    /\ ece = <<0, NumPredictions * Res>>
    /\ rpc = "loop"

\* one iteration of `for b in range(1, int(bins) + 1)`
RDBin ==
    /\ rpc = "loop"
    /\ b <= bins
    /\ LET i    == BinIndexes(y_prob, b, bins)
           sz   == Cardinality(i)
           corr == Cardinality({k \in i : y_pred[k] = y_true[k]})
           sumc == SumOver(i, y_prob)
       IN  IF sz = 0
           THEN /\ prob_pred' = Append(prob_pred, Zero)
                /\ prob_true' = Append(prob_true, Zero)
                /\ ece' = ece
           ELSE /\ prob_pred' = Append(prob_pred, <<sumc, sz * Res>>)
                /\ prob_true' = Append(prob_true, <<corr, sz>>)
                \* ece += (s / len(y_true)) * |acc - conf|
                /\ ece' = <<ece[1] + Abs(corr * Res - sumc), ece[2]>>
    /\ b' = b + 1
    /\ UNCHANGED <<xvars, evars, bvars, svars, fvars, tvars, y_prob, y_pred, y_true, bins, rpc>>

\* return prob_pred, prob_true, ece, nll
RDReturn ==
    /\ rpc = "loop"
    /\ b > bins
    /\ rpc' = "returned"
    /\ UNCHANGED <<xvars, evars, bvars, svars, fvars, tvars, y_prob, y_pred, y_true, bins, b,
                   prob_pred, prob_true, ece>>

RDNext == RDBin \/ RDReturn

--------------------------------------------------------------------------
(* Wrapper.temperature_scaling.  The ECE that each call of reliability_diagram *)
(* returns depends on fresh forward passes of the model and on the current     *)
(* temperature: it is an input of the model, any value of 0 .. MaxEce.         *)

\* for i in range(100)
MaxSteps == 100

EceValues == 0 .. MaxEce

\* the top-1 probabilities of a 2-class softmax, in units of 1/Res: above 1/2
TopProbs == {p \in 1 .. Res : 2 * p > Res}

Least(x, y) == IF x < y THEN x ELSE y

\* if ece < best_ece
Improves(e, best) == e < best

TSIdle ==
    /\ outs = <<>> /\ top_prob = <<>>
    /\ opt_steps = 0
    /\ best_ece = 0 /\ min_seen = 0
    /\ stalled = FALSE
    /\ iter = 0
    /\ ts_ret = 0
    /\ tpc = "idle"

\* temperature = 1, the optimizer, outs empty
TSInit ==
    /\ outs = <<>> /\ top_prob = <<>>
    /\ opt_steps = 0
    /\ best_ece = 0 /\ min_seen = 0
    /\ stalled = FALSE
    /\ iter = 0
    /\ ts_ret = 0
    /\ tpc = "start"

\* best_ece = self.reliability_diagram(samples=1)[-2]
TSInitialEce ==
    /\ tpc = "start"
    /\ \E e \in EceValues :
        /\ best_ece' = e
        /\ min_seen' = e
    /\ tpc' = "cache"
    /\ UNCHANGED <<xvars, evars, bvars, svars, fvars, rvars, outs, top_prob, opt_steps, stalled, iter, ts_ret>>

\* one batch of the caching loop: _, pred = torch.topk(out, 1, -1);
\* outs = torch.cat((outs, pred.cpu()))
TSCache ==
    /\ tpc = "cache"
    /\ \E prob \in TopProbs, pred \in Labels :
        /\ outs' = Append(outs, pred)
        /\ top_prob' = Append(top_prob, prob)
    /\ tpc' = IF Len(outs) + 1 = NumCached THEN "loop" ELSE "cache"
    /\ UNCHANGED <<xvars, evars, bvars, svars, fvars, rvars, opt_steps, best_ece, min_seen,
                   stalled, iter, ts_ret>>

\* one iteration of `for i in range(100)`: the optimizer step on temperature,
\* the ECE under the new temperature, and the test that keeps or breaks
TSStep ==
    /\ tpc = "loop"
    /\ iter < MaxSteps
    /\ opt_steps' = opt_steps + 1
    /\ \E e \in EceValues :
        /\ min_seen' = Least(min_seen, e)
        /\ stalled' = (stalled \/ e >= best_ece)
        /\ IF Improves(e, best_ece)
           THEN /\ best_ece' = e
                /\ iter' = iter + 1
                /\ tpc' = IF iter + 1 = MaxSteps THEN "after_loop" ELSE "loop"
           ELSE /\ tpc' = "after_loop"
                /\ UNCHANGED <<best_ece, iter>>
    /\ UNCHANGED <<xvars, evars, bvars, svars, fvars, rvars, outs, top_prob, ts_ret>>

\* return best_ece
TSReturn ==
    /\ tpc = "after_loop"
    /\ ts_ret' = best_ece
    /\ tpc' = "returned"
    /\ UNCHANGED <<xvars, evars, bvars, svars, fvars, rvars, outs, top_prob, opt_steps, best_ece,
                   min_seen, stalled, iter>>

TSNext == TSInitialEce \/ TSCache \/ TSStep \/ TSReturn

--------------------------------------------------------------------------
(* epistemic_aleatoric_uncertainty.  A probability is a whole number of       *)
(* quarters, and every matrix is kept as an exact fraction: a matrix num of   *)
(* numerators over one denominator den.                                       *)

ClassCounts == {2, 3}

\* the softmax outputs: vectors of positive quarters that sum to 1
ProbVectors(c) == {v \in [1 .. c -> 1 .. 4] : SumOver(1 .. c, v) = 4}

\* the argument after torch.softmax(x, 2), still with the dims of x: a
\* 2-dimensional x is [example][class], a 3-dimensional x [sample][example][class]
EAInputs2 ==
    UNION {{[dim |-> 2, data |-> d] : d \in [1 .. BatchItems -> ProbVectors(c)]}
            : c \in ClassCounts}

EAInputs3 ==
    UNION {{[dim |-> 3, data |-> d] :
                d \in UNION {[1 .. t -> [1 .. BatchItems -> ProbVectors(c)]] :
                                t \in 1 .. MaxSamples}}
            : c \in ClassCounts}

\* if x.dim() == 2: x = x.unsqueeze(0)
Unsqueeze(x) == IF x.dim = 2 THEN <<x.data>> ELSE x.data

Frac(num, den) == [num |-> num, den |-> den]

ZeroMatrix(c) == [a \in 1 .. c |-> [q \in 1 .. c |-> 0]]

\* torch.mean(p, 0) taken over the examples instead of over the samples
MeanOverExamples(p, n) ==
    LET c == Len(p[1][1])
    IN  Frac([a \in 1 .. c |-> SumOver(1 .. Len(p[1]), [m \in 1 .. Len(p[1]) |-> p[1][m][a]])],
             Len(p[1]))

\* p_hat[n] = torch.mean(p, 0)[n]: the sum over the samples, over their number
\* (in quarters)
PHat(p, n) ==
    LET c == Len(p[1][1])
    IN  Frac([a \in 1 .. c |-> SumOver(1 .. Len(p), [t \in 1 .. Len(p) |-> p[t][n][a]])],
             Len(p))

\* al after `al /= t`: the sum over the samples of diag(_p) - outer(_p, _p),
\* in sixteenths, over t
Aleatoric(p, n) ==
    LET t == Len(p)
        c == Len(p[1][1])
    IN  Frac([a \in 1 .. c |-> [q \in 1 .. c |->
                SumOver(1 .. t, [s \in 1 .. t |->
                    (IF a = q THEN 4 * p[s][n][a] ELSE 0) - p[s][n][a] * p[s][n][q]])]],
             16 * t)

\* ep after `ep /= t`: the sum over the samples of outer(d, d), d = _p - _bp_hat
Epistemic(p, n, hat) ==
    LET t == Len(p)
        c == Len(p[1][1])
    IN  Frac([a \in 1 .. c |-> [q \in 1 .. c |->
                SumOver(1 .. t, [s \in 1 .. t |->
                    (hat.den * p[s][n][a] - hat.num[a]) * (hat.den * p[s][n][q] - hat.num[q])])]],
             16 * hat.den * hat.den * t)

RECURSIVE GCD(_, _)
GCD(x, y) == IF y = 0 THEN Abs(x) ELSE GCD(y, x % Abs(y))

RECURSIVE GCDOf(_)
GCDOf(S) ==
    IF S = {} THEN 0
    ELSE LET x == CHOOSE y \in S : TRUE IN GCD(x, GCDOf(S \ {x}))

\* the same matrix as a fraction in lowest terms
Lowest(m) ==
    LET g == GCDOf({m.den} \cup {m.num[a][q] : a, q \in DOMAIN m.num})
    IN  Frac([a \in DOMAIN m.num |-> [q \in DOMAIN m.num |-> m.num[a][q] \div g]],
             m.den \div g)

\* var = al + ep
AddFrac(m1, m2) ==
    Lowest(Frac([a \in DOMAIN m1.num |-> [q \in DOMAIN m1.num |->
                    m1.num[a][q] * m2.den + m2.num[a][q] * m1.den]],
                m1.den * m2.den))

RECURSIVE Power(_, _)
Power(x, k) == IF k = 0 THEN 1 ELSE x * Power(x, k - 1)

\* the matrix without its row 1 and its column k
Minor(m, k) ==
    [a \in 1 .. Len(m) - 1 |-> [q \in 1 .. Len(m) - 1 |->
        m[a + 1][IF q < k THEN q ELSE q + 1]]]

\* np.linalg.det on a matrix of whole numbers
RECURSIVE Det(_)
Det(m) ==
    IF Len(m) = 1 THEN m[1][1]
    ELSE SumOver(1 .. Len(m),
                 [k \in 1 .. Len(m) |->
                    (IF k % 2 = 1 THEN 1 ELSE -1) * m[1][k] * Det(Minor(m, k))])

\* det = np.linalg.det(var + np.eye(classes) / classes);
\* det = (det - mn) / (mx - mn), with mn = 1 / classes ** classes and
\* mx = mn * 2 ** (classes - 1).  With var = num / den the determinant is
\* Det(classes * num + den * I) / (classes * den) ** classes, so the result is
\* the fraction <<numerator, denominator>> below.
Determinant(var) ==
    LET c == Len(var.num)
        m == [a \in 1 .. c |-> [q \in 1 .. c |->
                    c * var.num[a][q] + (IF a = q THEN var.den ELSE 0)]]
    IN  <<Det(m) - Power(var.den, c), Power(var.den, c) * (Power(2, c - 1) - 1)>>

EAIdle ==
    /\ ea_in = Frac(<<>>, 0)
    /\ ea_p = <<>>
    /\ ea_hat = <<>>
    /\ bi = 0
    /\ al = Frac(<<>>, 1) /\ ep = Frac(<<>>, 1)
    /\ variances = <<>> /\ determinants = <<>>
    /\ epc = "idle"

EAInit ==
    /\ \/ ea_in \in EAInputs2
       \/ ea_in \in EAInputs3
    /\ ea_p = <<>>
    /\ ea_hat = <<>>
    /\ bi = 0
    /\ al = Frac(<<>>, 1) /\ ep = Frac(<<>>, 1)
    /\ variances = <<>> /\ determinants = <<>>
    /\ epc = "call"

\* up to the outer loop: the unsqueeze, p, p_hat, the empty lists
EAPrepare ==
    /\ epc = "call"
    /\ ea_p' = Unsqueeze(ea_in)
    /\ ea_hat' = [n \in 1 .. Len(Unsqueeze(ea_in)[1]) |-> PHat(Unsqueeze(ea_in), n)]
    /\ epc' = "loop"
    /\ UNCHANGED <<xvars, bvars, svars, fvars, rvars, tvars, ea_in, bi, al, ep, variances,
                   determinants>>

\* one iteration of `for _bi in range(p.shape[0])`
EAExample ==
    /\ epc = "loop"
    /\ bi < Len(ea_p[1])
    /\ LET n == bi + 1
           a1 == Aleatoric(ea_p, n)
           e1 == Epistemic(ea_p, n, ea_hat[n])
       IN  /\ al' = a1
           /\ ep' = e1
           /\ variances' = Append(variances, AddFrac(a1, e1))
           /\ determinants' = Append(determinants, Determinant(AddFrac(a1, e1)))
    /\ bi' = bi + 1
    /\ UNCHANGED <<xvars, bvars, svars, fvars, rvars, tvars, ea_in, ea_p, ea_hat, epc>>

\* return determinants, variances
EAReturn ==
    /\ epc = "loop"
    /\ bi = Len(ea_p[1])
    /\ epc' = "returned"
    /\ UNCHANGED <<xvars, bvars, svars, fvars, rvars, tvars, ea_in, ea_p, ea_hat, bi, al, ep,
                   variances, determinants>>

EANext == EAPrepare \/ EAExample \/ EAReturn

--------------------------------------------------------------------------
(* PixelShuffle.  An image is its size and the value of each of its pixels; *)
(* a percentage is a whole number of halves.                                *)

\* the percentage arguments: -0.5, 0, 0.5, 1, 1.5
Percentages == {-1, 0, 1, 2, 3}

Colours == {0, 1}

\* x.size
ImageSize == <<Width, 1>>

\* the pixel positions of an image of the given size
Positions(size) == (0 .. size[1] - 1) \X (0 .. size[2] - 1)

PILImages == {[size |-> ImageSize, px |-> f] : f \in [Positions(ImageSize) -> Colours]}

NoImage == [size |-> <<0, 0>>, px |-> <<>>]

\* pxs: the positions, x in range(w) outside and y in range(h) inside
Pxs(size) ==
    [n \in 1 .. size[1] * size[2] |-> <<(n - 1) \div size[2], (n - 1) % size[2]>>]

\* int(ln * self.percentage), for a percentage the constructor accepted
MapLength(ln, pct) == (ln * pct) \div 2

\* the outcomes of zip(np.random.choice(idx, k), np.random.choice(idx, k))
Choices(ln, k) == [1 .. k -> (1 .. ln) \X (1 .. ln)]

getpixel(img, pos) == img.px[pos]

putpixel(img, pos, value) == [img EXCEPT !.px[pos] = value]

\* a condition on self.pixels_map that holds of every value
AnyMap(pm) == TRUE

\* self.pixels_map is None
IsNone(pm) == pm = None

\* [(pxs[i], x1.getpixel(pxs[j])) for i, j in pixels_map]
BuildMap(img, zipped) ==
    [some |-> TRUE,
     data |-> [n \in 1 .. Len(zipped) |->
                <<Pxs(img.size)[zipped[n][1]], getpixel(img, Pxs(img.size)[zipped[n][2]])>>]]

\* for a, b in self.pixels_map: x1.putpixel(a, b)
RECURSIVE PutAll(_, _)
PutAll(img, pairs) ==
    IF pairs = <<>> THEN img
    ELSE PutAll(putpixel(img, Head(pairs)[1], Head(pairs)[2]), Tail(pairs))

\* x.copy(): the object the call writes into, "x" being its argument
Copy(obj) == "x1"

PSIdle ==
    /\ percentage = 0
    /\ pixels_map = None
    /\ x_arg = NoImage /\ x1 = NoImage /\ x_given = NoImage /\ x_first = NoImage
    /\ chosen = <<>>
    /\ first_map = None
    /\ calls = 0
    /\ xpc = "idle"

PSInit ==
    /\ percentage \in Percentages
    /\ pixels_map = None
    /\ x_arg = NoImage /\ x1 = NoImage /\ x_given = NoImage /\ x_first = NoImage
    /\ chosen = <<>>
    /\ first_map = None
    /\ calls = 0
    /\ xpc = "new"

\* PixelShuffle.__init__
PSConstruct ==
    /\ xpc = "new"
    /\ xpc' = IF percentage < 0 \/ percentage > 2 THEN "raised" ELSE "ready"
    /\ pixels_map' = None
    /\ UNCHANGED <<bvars, svars, fvars, rvars, tvars, evars, percentage, x_arg, x1,
                   x_given, x_first, chosen, first_map, calls>>

\* PixelShuffle.__call__, that is shuffle_pixels, on an image x
PSCall ==
    /\ xpc = "ready"
    /\ calls < MaxCalls
    /\ \E x \in PILImages :
         \E zipped \in IF IsNone(pixels_map)
                        THEN Choices(Len(Pxs(x.size)),
                                     MapLength(Len(Pxs(x.size)), percentage))
                        ELSE {chosen} :
            LET build   == IsNone(pixels_map)
                pm      == IF build THEN BuildMap(x, zipped) ELSE pixels_map
                written == PutAll(x, pm.data)
            IN  /\ pixels_map' = pm
                /\ x1' = written
                /\ x_arg' = IF Copy("x") = "x" THEN written ELSE x
                /\ x_given' = x
                /\ chosen' = IF build THEN zipped ELSE chosen
                /\ x_first' = IF calls = 0 THEN x ELSE x_first
                /\ first_map' = IF calls = 0 THEN pm ELSE first_map
    /\ calls' = calls + 1
    /\ UNCHANGED <<bvars, svars, fvars, rvars, tvars, evars, percentage, xpc>>

PSNext == PSConstruct \/ PSCall

--------------------------------------------------------------------------
(* The specifications *)

InitBuild == BuildInit /\ SweepIdle /\ FgsmIdle /\ RDIdle /\ TSIdle /\ EAIdle /\ PSIdle
SpecBuild == InitBuild /\ [][BuildNext]_vars

InitSweep == SweepInit /\ BuildIdle /\ FgsmIdle /\ RDIdle /\ TSIdle /\ EAIdle /\ PSIdle
SpecSweep == InitSweep /\ [][SweepNext]_vars

InitFgsm == FgsmInit /\ BuildIdle /\ SweepIdle /\ RDIdle /\ TSIdle /\ EAIdle /\ PSIdle
SpecFgsm == InitFgsm /\ [][FgsmNext]_vars

InitRD == RDInit /\ BuildIdle /\ SweepIdle /\ FgsmIdle /\ TSIdle /\ EAIdle /\ PSIdle
SpecRD == InitRD /\ [][RDNext]_vars

InitTS == TSInit /\ BuildIdle /\ SweepIdle /\ FgsmIdle /\ RDIdle /\ EAIdle /\ PSIdle
SpecTS == InitTS /\ [][TSNext]_vars

InitEA == EAInit /\ BuildIdle /\ SweepIdle /\ FgsmIdle /\ RDIdle /\ TSIdle /\ PSIdle
SpecEA == InitEA /\ [][EANext]_vars

InitPS == PSInit /\ BuildIdle /\ SweepIdle /\ FgsmIdle /\ RDIdle /\ TSIdle /\ EAIdle
SpecPS == InitPS /\ [][PSNext]_vars

--------------------------------------------------------------------------
(* Vocabulary of the claims about the builders *)

IsActivationTag(i) == IsStr(i) /\ Lower(i.tag) \in {"relu", "sigmoid"}
IsPoolEntry(i)     == IsTuple(i) /\ i.tag \in {"MP", "AP"} /\ i.len = 3
IsConvEntry(i)     == IsTuple(i) /\ i.tag = "" /\ i.len = 4
IsSpatialEntry(i)  == IsPoolEntry(i) \/ IsConvEntry(i)

\* the supported shapes of a topology entry
SupportedEntry(i) ==
    IsPoolEntry(i) \/ IsActivationTag(i) \/ IsFloat(i) \/ IsConvEntry(i) \/ IsInt(i)

\* a valid topology: supported entries, the convolutional/pooling stage before
\* the linear stage
ValidTopology(t) ==
    /\ Len(t) >= 1
    /\ \A p \in DOMAIN t : SupportedEntry(t[p])
    /\ \A p, q \in DOMAIN t : (IsInt(t[p]) /\ IsSpatialEntry(t[q])) => q < p

IsSpatialModule(m) == m.kind \in {"MaxPool2d", "AvgPool2d", "Conv2d", "BayesianCNNLayer"}
IsLinearModule(m)  == m.kind \in {"Linear", "BayesianLinearLayer"}
IsFlatten(m)       == m.kind = "Flatten"

\* positions of the real (non-activation, non-dropout) entries of a topology
RealPositions(t) == {p \in DOMAIN t : ~IsStr(t[p]) /\ ~IsFloat(t[p])}

Max(S) == CHOOSE x \in S : \A y \in S : y <= x
Min(S) == CHOOSE x \in S : \A y \in S : x <= y

LastRealIsSpatial(t) ==
    RealPositions(t) # {} /\ IsSpatialEntry(t[Max(RealPositions(t))])

\* positions of the entries of no supported shape
Unsupported(t) == {p \in DOMAIN t : ~SupportedEntry(t[p])}

\* the module an activation tag stands for
ActivationKind(i) == IF Lower(i.tag) = "relu" THEN "ReLU" ELSE "Sigmoid"

\* C2: for both builders and every valid topology with a convolutional or
\* pooling entry, the returned sequence holds exactly one Flatten, after every
\* convolutional/pooling module and before every linear module.
C2_ExactlyOneFlattenBetweenConvAndLinear ==
    (bpc = "returned" /\ ValidTopology(topology)
        /\ \E p \in DOMAIN topology : IsSpatialEntry(topology[p]))
    => LET F == {p \in DOMAIN features : IsFlatten(features[p])}
       IN  /\ Cardinality(F) = 1
           /\ \A p \in F, q \in DOMAIN features :
                /\ IsSpatialModule(features[q]) => q < p
                /\ IsLinearModule(features[q]) => p < q

C9_FinalFlattenIffLastRealLayerSpatial ==
    (bpc = "returned" /\ ValidTopology(topology))
    => LET n == Len(features)
       IN  /\ n >= 1
           /\ IsLinearModule(features[n]) /\ features[n].out = classes
           /\ (n >= 2 /\ IsFlatten(features[n - 1])) <=> LastRealIsSpatial(topology)

\* C10: in both builders a "relu"/"sigmoid" string in any letter case raises no
\* error and produces the ReLU/Sigmoid module at its position.
C10_ActivationTagAnyCase ==
    /\ (bpc = "raised") => ~IsActivationTag(topology[j + 1])
    /\ (bpc \in {"loop", "raised"} /\ j >= 1 /\ IsActivationTag(topology[j]))
        => /\ Len(features) >= 1
           /\ features[Len(features)].kind = ActivationKind(topology[j])

--------------------------------------------------------------------------
(* Vocabulary of the claims about the sweeps *)

\* the pre-registered list that belongs to each test
OwnList(t) ==
    CASE t = "shuffle_test"     -> shuffle_percentage
      [] t = "fgsm_test"        -> epsilons
      [] t = "white_noise_test" -> noise

Exited == pc \in {"returned", "raised"}

\* number of positions of sequence q that hold v
Count(q, v) == Cardinality({i \in DOMAIN q : q[i] = v})

\* correct and wrong are the scores sc of the examples predicted correctly and
\* of the others: every example's score is in exactly one of the two
Partitions(correct, wrong, sc, tl, pl) ==
    /\ Len(correct) + Len(wrong) = Len(tl)
    /\ \A v \in {sc[i] : i \in DOMAIN sc} :
        /\ Count(correct, v) = Cardinality({i \in DOMAIN sc : sc[i] = v /\ tl[i] = pl[i]})
        /\ Count(wrong, v)   = Cardinality({i \in DOMAIN sc : sc[i] = v /\ tl[i] # pl[i]})

\* the strength of the current iteration has been bucketed
LevelDone == pc = "level" /\ lvl >= 1

BucketedUpTo(n) ==
    /\ Len(correctly_predicted) = n /\ Len(wrongly_predicted) = n
    /\ Len(correctly_predicted_h) = n /\ Len(wrongly_predicted_h) = n
    /\ \A k \in 1 .. n :
        /\ Len(correctly_predicted[k]) + Len(wrongly_predicted[k]) = NumExamples
        /\ Len(correctly_predicted_h[k]) + Len(wrongly_predicted_h[k]) = NumExamples

\* C1: shuffle_test and white_noise_test leave the dataset's transform as it
\* was before the test on every exit path, the path of an exception included.
C1_TransformRestoredOnEveryExit ==
    (test \in {"shuffle_test", "white_noise_test"} /\ Exited) => transform = BaseTransform

\* C4: each test makes exactly one pass over the test set per entry of its own
\* list, in list order, and every returned per-level list has one element per
\* entry of that list.
C4_OnePassPerEntryOfOwnList ==
    pc = "returned"
    => /\ swept = OwnList(test)
       /\ test = "shuffle_test"
            => \A r \in {HS, DIFF, scores} : Len(r) = Len(OwnList(test))
       /\ test \in {"fgsm_test", "white_noise_test"}
            => \A r \in {correctly_predicted, wrongly_predicted,
                         correctly_predicted_h, wrongly_predicted_h} :
                    Len(r) = Len(OwnList(test))

\* C5 as stated: in every robustness test, shuffle_test included, the scores
\* collected at each strength are split into a correct and an incorrect bucket
\* by predicted == true, and the two sizes sum to the number of examples.
C5_EveryTestBucketsByCorrectness ==
    (test \in Tests /\ LevelDone)
    => /\ BucketedUpTo(lvl)
       /\ Partitions(correctly_predicted[lvl], wrongly_predicted[lvl],
                     H, true_label, pred_label)

\* C5 as amended: the same of fgsm_test and white_noise_test, for the
\* determinant scores and for the entropy scores; shuffle_test fills no bucket
\* and records one aggregate of H and one F1 score per strength.
C5_FgsmAndNoiseBucketByCorrectness ==
    /\ (test \in {"fgsm_test", "white_noise_test"} /\ LevelDone)
        => /\ BucketedUpTo(lvl)
           /\ Partitions(correctly_predicted[lvl], wrongly_predicted[lvl],
                         H, true_label, pred_label)
           /\ Partitions(correctly_predicted_h[lvl], wrongly_predicted_h[lvl],
                         He, true_label, pred_label)
    /\ (test = "shuffle_test" /\ LevelDone)
        => /\ BucketedUpTo(0)
           /\ Len(HS) = lvl /\ Len(scores) = lvl
           /\ HS[lvl] = <<SumSeq(H), NumExamples>>

\* white_noise_test has bucketed a perturbed strength with one example in each
\* bucket
C5_Witness ==
    /\ test = "white_noise_test"
    /\ LevelDone
    /\ lvl >= 2
    /\ Len(correctly_predicted[lvl]) = 1
    /\ Len(wrongly_predicted[lvl]) = 1

--------------------------------------------------------------------------
(* The claims about fgsm_attack *)

\* C6: fgsm_attack(image, 0) returns the image object itself, data and grad
\* untouched, whether or not a gradient has been computed; for epsilon # 0 a
\* missing gradient makes the call fail.
C6_ZeroEpsilonReturnsImageItself ==
    fpc = "done"
    => /\ epsilon = 0 => ret = image
       /\ (epsilon # 0 /\ ~image.grad.some) => ret.kind = "raised"
       /\ (epsilon # 0 /\ image.grad.some) => (ret.kind = "tensor" /\ ret.id # image.id)

\* fgsm_attack has returned from a call with epsilon 0 on an image without a
\* gradient and with a pixel outside [0, 1]
C6_Witness ==
    /\ fpc = "done"
    /\ epsilon = 0
    /\ ~image.grad.some
    /\ \E p \in DOMAIN image.data : image.data[p] > 1000
    /\ ret.kind = "tensor"

--------------------------------------------------------------------------
(* The claims about reliability_diagram *)

\* the bucket of a confidence c in (0, 1]: the least bk with c <= bk / bins
BucketOf(c, nb) == (c * nb + Res - 1) \div Res

\* the predictions whose confidence is in (0, 1] and belongs to bucket bk
Members(bk) ==
    {i \in DOMAIN y_prob : y_prob[i] > 0 /\ y_prob[i] <= Res /\ BucketOf(y_prob[i], bins) = bk}

Correct(S) == Cardinality({i \in S : y_pred[i] = y_true[i]})

\* C7: a prediction of confidence c is counted in bucket bk exactly when
\* (bk-1)/bins < c <= bk/bins, so a confidence in (0,1] is in exactly one bucket,
\* the lower one on a boundary; an empty bucket records (0, 0) and adds nothing;
\* ECE is the sum over the non-empty buckets of (size/total)*|accuracy - mean
\* confidence|, and is 0 when accuracy equals mean confidence in each of them.
C7_HalfOpenBucketsAndEce ==
    rpc = "returned"
    => /\ Len(prob_pred) = bins /\ Len(prob_true) = bins
       /\ \A bk \in 1 .. bins :
            IF Members(bk) = {}
            THEN prob_pred[bk] = Zero /\ prob_true[bk] = Zero
            ELSE /\ prob_true[bk] = <<Correct(Members(bk)), Cardinality(Members(bk))>>
                 /\ prob_pred[bk] = <<SumOver(Members(bk), y_prob), Cardinality(Members(bk)) * Res>>
       /\ \A i \in DOMAIN y_prob : (y_prob[i] > 0 /\ y_prob[i] <= Res)
            => Cardinality({bk \in 1 .. bins : i \in Members(bk)}) = 1
       /\ ece[2] = NumPredictions * Res
       /\ ece[1] = SumOver(1 .. bins,
                           [bk \in 1 .. bins |->
                                Abs(Correct(Members(bk)) * Res - SumOver(Members(bk), y_prob))])
       /\ (\A bk \in 1 .. bins :
                Correct(Members(bk)) * Res = SumOver(Members(bk), y_prob))
            => ece[1] = 0

\* reliability_diagram has returned on predictions one of which has its
\* confidence on an inner bin boundary, with an empty bucket and ECE > 0
C7_Witness ==
    /\ rpc = "returned"
    /\ \E i \in DOMAIN y_prob, bk \in 1 .. bins - 1 : y_prob[i] * bins = bk * Res
    /\ \E bk \in 1 .. bins : Members(bk) = {}
    /\ ece[1] > 0

--------------------------------------------------------------------------
(* The claims about temperature_scaling *)

\* the loop makes at most 100 steps, stops at the first step whose ECE is not
\* below the best so far, and the value returned is the least of the initial
\* ECE and the ECEs of the steps made
TS_StopsAtFirstStallAndReturnsLeast ==
    /\ opt_steps <= MaxSteps
    /\ stalled => tpc \in {"after_loop", "returned"}
    /\ tpc = "returned" => ts_ret = min_seen

\* C8: temperature_scaling makes at most 100 optimisation steps on cached top-1
\* probabilities, stops at the first step whose ECE does not improve, and
\* returns the least of the initial ECE and the ECEs of the steps executed.
C8_StepsOnCachedTopProbabilities ==
    /\ TS_StopsAtFirstStallAndReturnsLeast
    /\ tpc \in {"loop", "after_loop", "returned"} => outs = top_prob

--------------------------------------------------------------------------
(* C11: with a single stochastic sample per example (a 3-dimensional input  *)
(* with one sample, or a 2-dimensional input), the epistemic covariance of  *)
(* every example processed is the zero matrix and the variance appended for *)
(* it equals the aleatoric covariance diag(p) - outer(p, p) of its softmax  *)
(* vector p.                                                                *)

\* the softmax vector of example n when x holds a single sample
SingleSample(n) == IF ea_in.dim = 2 THEN ea_in.data[n] ELSE ea_in.data[1][n]

C11_SingleSampleVarianceIsAleatoric ==
    (/\ epc \in {"loop", "returned"}
     /\ ea_in.dim = 2 \/ Len(ea_in.data) = 1
     /\ bi >= 1)
    => /\ ep.num = ZeroMatrix(Len(SingleSample(1)))
       /\ Len(variances) = bi
       /\ \A n \in 1 .. bi :
            \A a, q \in 1 .. Len(SingleSample(n)) :
                variances[n].num[a][q] * 16
                    = ((IF a = q THEN 4 * SingleSample(n)[a] ELSE 0)
                            - SingleSample(n)[a] * SingleSample(n)[q])
                      * variances[n].den

C11_Witness ==
    /\ epc = "returned"
    /\ ea_in.dim = 2
    /\ ea_in.data[1] # ea_in.data[2]
    /\ Len(variances) = BatchItems
    /\ ep.num = ZeroMatrix(Len(ea_in.data[1]))
    /\ al.num # ZeroMatrix(Len(ea_in.data[1]))

--------------------------------------------------------------------------
(* C12: a PixelShuffle whose percentage is below 0 or above 1 is rejected   *)
(* at construction.  One that was accepted has no map before its first call *)
(* and after every call has the map its first call built: one (position,    *)
(* value) pair per index pair drawn then, the value read from the first     *)
(* image.  Every call leaves its argument as it was given and returns a     *)
(* copy of it in which each position named by the map holds the value of    *)
(* the last pair naming it; with percentage 0 the map is empty and the      *)
(* image returned equals the argument.                                      *)

\* the pairs of the map that name the position
PairsAt(pos) == {n \in 1 .. Len(pixels_map.data) : pixels_map.data[n][1] = pos}

C12_MapBuiltOnceInputUntouched ==
    /\ xpc \in {"ready", "raised"}
        => (xpc = "raised" <=> (percentage < 0 \/ percentage > 2))
    /\ (xpc = "ready" /\ calls = 0) => pixels_map = None
    /\ (xpc = "ready" /\ calls >= 1) =>
        /\ pixels_map.some
        /\ pixels_map = first_map
        /\ Len(pixels_map.data) = Len(chosen)
        /\ 2 * Len(chosen) <= Len(Pxs(x_first.size)) * percentage
        /\ Len(Pxs(x_first.size)) * percentage < 2 * (Len(chosen) + 1)
        /\ \A n \in 1 .. Len(chosen) :
            /\ pixels_map.data[n][1] = Pxs(x_first.size)[chosen[n][1]]
            /\ pixels_map.data[n][2] = x_first.px[Pxs(x_first.size)[chosen[n][2]]]
        /\ x_arg = x_given
        /\ x1.size = x_given.size
        /\ \A pos \in Positions(x_given.size) :
            x1.px[pos] = IF PairsAt(pos) = {} THEN x_given.px[pos]
                         ELSE pixels_map.data[Max(PairsAt(pos))][2]
        /\ percentage = 0 => (pixels_map.data = <<>> /\ x1 = x_given)

\* a second call on an image other than the first one, writing a value that
\* only the first image holds at the place it was read from
C12_Witness ==
    /\ xpc = "ready"
    /\ calls >= 2
    /\ x_given # x_first
    /\ pixels_map = first_map
    /\ \E n \in 1 .. Len(chosen) :
        /\ pixels_map.data[n][2] = x_first.px[Pxs(x_first.size)[chosen[n][2]]]
        /\ pixels_map.data[n][2] # x_given.px[Pxs(x_first.size)[chosen[n][2]]]
        /\ x1.px[pixels_map.data[n][1]] # x_given.px[pixels_map.data[n][1]]
    /\ x_arg = x_given

====
